---- MODULE Spec2Model ----
(***************************************************************************)
(* Model of the tokenizer module of token_visualizer (class                *)
(* TokenVisualizer, src/unnamed/part_000).                                 *)
(*                                                                         *)
(* A JavaScript string is modelled as the sequence of its UTF-16 code      *)
(* units (integers 0..65535); "the" is <<116,104,101>>.  A JavaScript Map  *)
(* is modelled as the sequence of its entries [key, value] in insertion    *)
(* order, which is the order Map.prototype.entries() iterates in.          *)
(***************************************************************************)
EXTENDS Integers, Sequences, FiniteSets, TLC

VARIABLES
    vocabulary,         \* this.vocabulary: Map unit -> token id
    reverseVocabulary,  \* this.reverseVocabulary: Map token id -> unit
    asciiOffset,        \* this.asciiOffset
    encodingSteps,      \* this.encodingSteps
    decodingSteps,      \* this.decodingSteps
    lastCall,           \* the last method call on the instance and what it returned
    freshResults,       \* what each call returns on the freshly constructed instance
    held,               \* a result a caller kept, as it reads through its references
    ui,                 \* the page: the elements UIManager reads and writes
    timers,             \* the setTimeout(..., 300) callbacks that have not run yet
    lastEvent,          \* the last event the page handled
    encodingCleared     \* history: handleClearAll has run, and the Encode button
                        \* has not been clicked since

vars == <<vocabulary, reverseVocabulary, asciiOffset, encodingSteps, decodingSteps,
          lastCall, freshResults, held, ui, timers, lastEvent,
          encodingCleared>>

(***************************************************************************)
(* Characters and strings                                                  *)
(***************************************************************************)

\* Number of values of a UTF-16 code unit: String.fromCharCode takes its
\* argument modulo this (ToUint16).
CharCodeRange == 65536

\* String.fromCharCode(n), for an integer n >= 0
fromCharCode(n) == n % CharCodeRange

\* The characters the regular expression /\s/ matches
WhiteSpaceChars ==
    {9, 10, 11, 12, 13, 32, 160, 5760, 8232, 8233, 8239, 8287, 12288, 65279}
        \cup (8192..8202)

\* The characters of the class /[.,!?;:"'()\[\]{}\-_+=*\/\\|@#$%^&<>~`]/
PunctuationChars ==
    {46, 44, 33, 63, 59, 58, 34, 39, 40, 41, 91, 93, 123, 125,
     45, 95, 43, 61, 42, 47, 92, 124, 64, 35, 36, 37, 94, 38,
     60, 62, 126, 96}

\* String.prototype.toLowerCase() of a one-character string: A-Z and the
\* Latin-1 capitals map to their small letters, the Kelvin sign to "k", the
\* Angstrom sign to a-ring, and capital I with dot above to the two
\* characters i + combining dot.  Characters outside Latin-1 other than these
\* three are left as they are (none of them is among the model's inputs).
toLowerCaseChar(c) ==
    IF c \in 65..90 THEN <<c + 32>>
    ELSE IF c \in (192..222) \ {215} THEN <<c + 32>>
    ELSE IF c = 8490 THEN <<107>>
    ELSE IF c = 8491 THEN <<229>>
    ELSE IF c = 304 THEN <<105, 775>>
    ELSE <<c>>

RECURSIVE toLowerCase(_)
toLowerCase(s) ==
    IF s = <<>> THEN <<>> ELSE toLowerCaseChar(Head(s)) \o toLowerCase(Tail(s))

IsHighSurrogate(c) == c \in 55296..56319
IsLowSurrogate(c) == c \in 56320..57343

\* Array.from(word): the string's iterator yields code points, so a high
\* surrogate directly followed by a low surrogate is ONE element (of two code
\* units); every other code unit is an element of its own.
RECURSIVE ArrayFrom(_)
ArrayFrom(word) ==
    IF word = <<>> THEN <<>>
    ELSE IF Len(word) >= 2 /\ IsHighSurrogate(word[1]) /\ IsLowSurrogate(word[2])
         THEN <<SubSeq(word, 1, 2)>> \o ArrayFrom(SubSeq(word, 3, Len(word)))
         ELSE <<SubSeq(word, 1, 1)>> \o ArrayFrom(Tail(word))

\* String.prototype.includes: term occurs in s as a contiguous substring
includes(s, term) ==
    \E i \in 0..(Len(s) - Len(term)) : SubSeq(s, i + 1, i + Len(term)) = term

\* Number.prototype.toString() of an integer n >= 0, as a string of digits
RECURSIVE toString(_)
toString(n) ==
    IF n < 10 THEN <<48 + n>> ELSE toString(n \div 10) \o <<48 + (n % 10)>>

(***************************************************************************)
(* JavaScript Map                                                          *)
(***************************************************************************)

MapHas(m, k) == \E i \in 1..Len(m) : m[i].key = k

MapGet(m, k) == m[CHOOSE i \in 1..Len(m) : m[i].key = k].value

\* Map.prototype.set that leaves the value of an existing key alone
MapSet_KeepFirst(m, k, v) ==
    IF MapHas(m, k) THEN m ELSE Append(m, [key |-> k, value |-> v])

\* Map.prototype.set: an existing key keeps its place and gets the new value,
\* a new key is appended.
MapSet(m, k, v) ==
    IF MapHas(m, k)
    THEN [i \in 1..Len(m) |-> IF m[i].key = k THEN [key |-> k, value |-> v] ELSE m[i]]
    ELSE Append(m, [key |-> k, value |-> v])

MapKeys(m) == {m[i].key : i \in 1..Len(m)}

(***************************************************************************)
(* initializeVocabulary                                                    *)
(***************************************************************************)

\* The special tokens, as strings:
\* '<PAD>', '<UNK>', '<START>', '<END>', '<MASK>'
\* '<CLS>', '<SEP>', '<NEWLINE>', '<TAB>', '<SPACE>'
specialTokens ==
  <<
    <<60,80,65,68,62>>, <<60,85,78,75,62>>, <<60,83,84,65,82,84,62>>, <<60,69,78,68,62>>, <<60,77,65,83,75,62>>,
    <<60,67,76,83,62>>, <<60,83,69,80,62>>, <<60,78,69,87,76,73,78,69,62>>, <<60,84,65,66,62>>, <<60,83,80,65,67,69,62>>
  >>

\* The common words ('the', 'be', 'to', 'of', 'and', 'a', 'in', ...), in the
\* order of the source, repeated words included
commonWords ==
  <<
    <<116,104,101>>, <<98,101>>, <<116,111>>, <<111,102>>, <<97,110,100>>,
    <<97>>, <<105,110>>, <<116,104,97,116>>, <<104,97,118,101>>, <<105>>,
    <<105,116>>, <<102,111,114>>, <<110,111,116>>, <<111,110>>, <<119,105,116,104>>,
    <<104,101>>, <<97,115>>, <<121,111,117>>, <<100,111>>, <<97,116>>,
    <<116,104,105,115>>, <<98,117,116>>, <<104,105,115>>, <<98,121>>, <<102,114,111,109>>,
    <<116,104,101,121>>, <<119,101>>, <<115,97,121>>, <<104,101,114>>, <<115,104,101>>,
    <<111,114>>, <<97,110>>, <<119,105,108,108>>, <<109,121>>, <<111,110,101>>,
    <<97,108,108>>, <<119,111,117,108,100>>, <<116,104,101,114,101>>, <<116,104,101,105,114>>, <<119,104,97,116>>,
    <<115,111>>, <<117,112>>, <<111,117,116>>, <<105,102>>, <<97,98,111,117,116>>,
    <<119,104,111>>, <<103,101,116>>, <<119,104,105,99,104>>, <<103,111>>, <<109,101>>,
    <<119,104,101,110>>, <<109,97,107,101>>, <<99,97,110>>, <<108,105,107,101>>, <<116,105,109,101>>,
    <<110,111>>, <<106,117,115,116>>, <<104,105,109>>, <<107,110,111,119>>, <<116,97,107,101>>,
    <<112,101,111,112,108,101>>, <<105,110,116,111>>, <<121,101,97,114>>, <<121,111,117,114>>, <<103,111,111,100>>,
    <<115,111,109,101>>, <<99,111,117,108,100>>, <<116,104,101,109>>, <<115,101,101>>, <<111,116,104,101,114>>,
    <<116,104,97,110>>, <<116,104,101,110>>, <<110,111,119>>, <<108,111,111,107>>, <<111,110,108,121>>,
    <<99,111,109,101>>, <<105,116,115>>, <<111,118,101,114>>, <<116,104,105,110,107>>, <<97,108,115,111>>,
    <<98,97,99,107>>, <<97,102,116,101,114>>, <<117,115,101>>, <<116,119,111>>, <<104,111,119>>,
    <<111,117,114>>, <<119,111,114,107>>, <<102,105,114,115,116>>, <<119,101,108,108>>, <<119,97,121>>,
    <<101,118,101,110>>, <<110,101,119>>, <<119,97,110,116>>, <<98,101,99,97,117,115,101>>, <<97,110,121>>,
    <<116,104,101,115,101>>, <<103,105,118,101>>, <<100,97,121>>, <<109,111,115,116>>, <<117,115>>,
    <<105,115>>, <<119,97,115>>, <<97,114,101>>, <<98,101,101,110>>, <<104,97,115>>,
    <<104,97,100>>, <<119,101,114,101>>, <<115,97,105,100>>, <<101,97,99,104>>, <<119,104,105,99,104>>,
    <<116,104,101,105,114>>, <<116,105,109,101>>, <<119,105,108,108>>, <<97,98,111,117,116>>, <<105,102>>,
    <<117,112>>, <<111,117,116>>, <<109,97,110,121>>, <<116,104,101,110>>, <<116,104,101,109>>,
    <<116,104,101,115,101>>, <<115,111>>, <<115,111,109,101>>, <<104,101,114>>, <<119,111,117,108,100>>,
    <<109,97,107,101>>, <<108,105,107,101>>, <<105,110,116,111>>, <<104,105,109>>, <<104,97,115>>,
    <<116,119,111>>, <<109,111,114,101>>, <<118,101,114,121>>, <<119,104,97,116>>, <<107,110,111,119>>,
    <<106,117,115,116>>, <<102,105,114,115,116>>, <<103,101,116>>, <<111,118,101,114>>, <<116,104,105,110,107>>,
    <<119,104,101,114,101>>, <<109,117,99,104>>, <<103,111>>, <<119,101,108,108>>, <<119,101,114,101>>,
    <<98,101,101,110>>, <<104,97,118,101>>, <<104,97,100>>, <<104,97,115>>, <<115,97,105,100>>,
    <<101,97,99,104>>, <<119,104,105,99,104>>, <<115,104,101>>, <<100,111>>, <<104,111,119>>,
    <<116,104,101,105,114>>, <<105,102>>, <<119,105,108,108>>, <<117,112>>, <<111,116,104,101,114>>,
    <<97,98,111,117,116>>, <<111,117,116>>, <<109,97,110,121>>
  >>

\* The 32 punctuation characters of the source, then '\n', '\t', ' '
punctuation ==
  <<
    <<46>>, <<44>>, <<33>>, <<63>>, <<59>>, <<58>>, <<34>>, <<39>>, <<40>>, <<41>>, <<91>>, <<93>>,
    <<123>>, <<125>>, <<45>>, <<95>>, <<43>>, <<61>>, <<42>>, <<47>>, <<92>>, <<124>>, <<64>>, <<35>>,
    <<36>>, <<37>>, <<94>>, <<38>>, <<60>>, <<62>>, <<126>>, <<96>>, <<10>>, <<9>>, <<32>>
  >>

\* addToken with tokenId++ moved between the two set calls: the inverse map
\* is written under the next id.
addToken_IncrementEarly(entry, lower, st) ==
    LET unit == IF lower THEN toLowerCase(entry) ELSE entry
    IN  [vocabulary        |-> MapSet(st.vocabulary, unit, st.tokenId),
         reverseVocabulary |-> MapSet(st.reverseVocabulary, st.tokenId + 1, unit),
         tokenId           |-> st.tokenId + 1]

\* The body of the callback of specialTokens.forEach / commonWords.forEach /
\* punctuation.forEach for one seed entry: st is [vocabulary,
\* reverseVocabulary, tokenId]; lower tells whether the entry is lowercased
\* (the common words).
addToken(entry, lower, st) ==
    LET unit == IF lower THEN toLowerCase(entry) ELSE entry
    IN  [vocabulary        |-> MapSet(st.vocabulary, unit, st.tokenId),
         reverseVocabulary |-> MapSet(st.reverseVocabulary, st.tokenId, unit),
         tokenId           |-> st.tokenId + 1]

\* list.forEach over the entries list[lo..hi], in order.  The entries are
\* added left to right; the evaluation goes by halves, and the test on
\* st.tokenId (never negative) makes TLC evaluate st before it descends, which
\* keeps the evaluation shallow.
RECURSIVE addTokens(_, _, _, _, _)
addTokens(list, lo, hi, lower, st) ==
    IF lo > hi \/ st.tokenId < 0 THEN st
    ELSE IF lo = hi THEN addToken(list[lo], lower, st)
    ELSE LET mid == (lo + hi) \div 2
         IN  addTokens(list, mid + 1, hi, lower, addTokens(list, lo, mid, lower, st))

\* initializeVocabulary with the counter restarted at the block starts its
\* comments name (100 for the common words, 1000 for the punctuation)
initializeVocabulary_BlockStarts ==
    LET s0 == [vocabulary |-> <<>>, reverseVocabulary |-> <<>>, tokenId |-> 0]
        s1 == addTokens(specialTokens, 1, Len(specialTokens), FALSE, s0)
        s2 == addTokens(commonWords, 1, Len(commonWords), TRUE,
                        [s1 EXCEPT !.tokenId = 100])
        s3 == addTokens(punctuation, 1, Len(punctuation), FALSE,
                        [s2 EXCEPT !.tokenId = 1000])
    IN  [vocabulary        |-> s3.vocabulary,
         reverseVocabulary |-> s3.reverseVocabulary,
         asciiOffset       |-> 2000]

\* The instance fields initializeVocabulary() sets
initializeVocabulary ==
    LET s0 == [vocabulary |-> <<>>, reverseVocabulary |-> <<>>, tokenId |-> 0]
        s1 == addTokens(specialTokens, 1, Len(specialTokens), FALSE, s0)
        s2 == addTokens(commonWords, 1, Len(commonWords), TRUE, s1)
        s3 == addTokens(punctuation, 1, Len(punctuation), FALSE, s2)
    IN  [vocabulary        |-> s3.vocabulary,
         reverseVocabulary |-> s3.reverseVocabulary,
         asciiOffset       |-> 2000]

(***************************************************************************)
(* tokenizeWords, encodeToAscii                                            *)
(***************************************************************************)

\* flush without the test "if (currentToken)"
flush_Always(tokens, currentToken) == Append(tokens, currentToken)

\* tokens with currentToken pushed when it is non-empty ("if (currentToken)")
flush(tokens, currentToken) ==
    IF currentToken # <<>> THEN Append(tokens, currentToken) ELSE tokens

\* The loop of tokenizeWords without "if (char !== ' ') tokens.push(char)":
\* no whitespace character becomes a unit
RECURSIVE tokenizeLoop_DropsWhitespace(_, _, _, _)
tokenizeLoop_DropsWhitespace(text, i, tokens, currentToken) ==
    IF i > Len(text) THEN flush(tokens, currentToken)
    ELSE LET char == text[i]
         IN  IF char \in WhiteSpaceChars
             THEN tokenizeLoop_DropsWhitespace(text, i + 1,
                      flush(tokens, currentToken), <<>>)
             ELSE IF char \in PunctuationChars
             THEN tokenizeLoop_DropsWhitespace(text, i + 1,
                      Append(flush(tokens, currentToken), <<char>>), <<>>)
             ELSE tokenizeLoop_DropsWhitespace(text, i + 1, tokens,
                      Append(currentToken, char))

\* The loop of tokenizeWords with "tokens.push(char)" for every whitespace
\* character, the plain space included
RECURSIVE tokenizeLoop_KeepsSpaces(_, _, _, _)
tokenizeLoop_KeepsSpaces(text, i, tokens, currentToken) ==
    IF i > Len(text) THEN flush(tokens, currentToken)
    ELSE LET char == text[i]
         IN  IF char \in WhiteSpaceChars \/ char \in PunctuationChars
             THEN tokenizeLoop_KeepsSpaces(text, i + 1,
                      Append(flush(tokens, currentToken), <<char>>), <<>>)
             ELSE tokenizeLoop_KeepsSpaces(text, i + 1, tokens,
                      Append(currentToken, char))

\* The for loop of tokenizeWords from index i (1-based) on, and the final flush
RECURSIVE tokenizeLoop(_, _, _, _)
tokenizeLoop(text, i, tokens, currentToken) ==
    IF i > Len(text) THEN flush(tokens, currentToken)
    ELSE LET char == text[i]
         IN  IF char \in WhiteSpaceChars
             THEN tokenizeLoop(text, i + 1,
                      IF char # 32
                      THEN Append(flush(tokens, currentToken), <<char>>)
                      ELSE flush(tokens, currentToken),
                      <<>>)
             ELSE IF char \in PunctuationChars
             THEN tokenizeLoop(text, i + 1,
                      Append(flush(tokens, currentToken), <<char>>), <<>>)
             ELSE tokenizeLoop(text, i + 1, tokens, Append(currentToken, char))

tokenizeWords(text) == tokenizeLoop(text, 1, <<>>, <<>>)

\* encodeToAscii applied to the lowercased word
encodeToAscii_Lowercased(word) ==
    LET chars == ArrayFrom(toLowerCase(word))
    IN  [k \in 1..Len(chars) |-> chars[k][1] + asciiOffset]

\* Array.from(word).map(char => char.charCodeAt(0) + this.asciiOffset)
encodeToAscii(word) ==
    LET chars == ArrayFrom(word)
    IN  [k \in 1..Len(chars) |-> chars[k][1] + asciiOffset]

(***************************************************************************)
(* encodeText                                                              *)
(***************************************************************************)

\* encodeWord looking the word up as written, without toLowerCase()
encodeWord_NoCaseFold(word, index, acc) ==
    IF MapHas(vocabulary, word)
    THEN LET tokenId == MapGet(vocabulary, word)
         IN  [tokens |-> Append(acc.tokens, tokenId),
              steps  |-> Append(acc.steps,
                             [step    |-> index,
                              input   |-> word,
                              process |-> [found |-> TRUE, word |-> word],
                              output  |-> tokenId])]
    ELSE LET asciiTokens == encodeToAscii(word)
         IN  [tokens |-> acc.tokens \o asciiTokens,
              steps  |-> Append(acc.steps,
                             [step    |-> index,
                              input   |-> word,
                              process |-> [found |-> FALSE, word |-> word],
                              output  |-> asciiTokens])]

\* encodeWord numbering the steps with "step: index", from 0
encodeWord_ZeroBasedStep(word, index, acc) ==
    IF MapHas(vocabulary, toLowerCase(word))
    THEN LET tokenId == MapGet(vocabulary, toLowerCase(word))
         IN  [tokens |-> Append(acc.tokens, tokenId),
              steps  |-> Append(acc.steps,
                             [step    |-> index - 1,
                              input   |-> word,
                              process |-> [found |-> TRUE, word |-> word],
                              output  |-> tokenId])]
    ELSE LET asciiTokens == encodeToAscii(word)
         IN  [tokens |-> acc.tokens \o asciiTokens,
              steps  |-> Append(acc.steps,
                             [step    |-> index - 1,
                              input   |-> word,
                              process |-> [found |-> FALSE, word |-> word],
                              output  |-> asciiTokens])]

\* encodeWord without the "else": a vocabulary word gets its id and is
\* spelled out in ASCII ids as well
encodeWord_AlsoSpells(word, index, acc) ==
    LET asciiTokens == encodeToAscii(word)
    IN  IF MapHas(vocabulary, toLowerCase(word))
        THEN LET tokenId == MapGet(vocabulary, toLowerCase(word))
             IN  [tokens |-> Append(acc.tokens, tokenId) \o asciiTokens,
                  steps  |-> Append(acc.steps,
                                 [step    |-> index,
                                  input   |-> word,
                                  process |-> [found |-> FALSE, word |-> word],
                                  output  |-> <<tokenId>> \o asciiTokens])]
        ELSE [tokens |-> acc.tokens \o asciiTokens,
              steps  |-> Append(acc.steps,
                             [step    |-> index,
                              input   |-> word,
                              process |-> [found |-> FALSE, word |-> word],
                              output  |-> asciiTokens])]

\* The body of words.forEach for the unit words[index] (index 1-based, so the
\* step number index + 1 of the source is index here): acc is [tokens, steps].
encodeWord(word, index, acc) ==
    IF MapHas(vocabulary, toLowerCase(word))
    THEN LET tokenId == MapGet(vocabulary, toLowerCase(word))
         IN  [tokens |-> Append(acc.tokens, tokenId),
              steps  |-> Append(acc.steps,
                             [step    |-> index,
                              input   |-> word,
                              process |-> [found |-> TRUE, word |-> word],
                              output  |-> tokenId])]
    ELSE LET asciiTokens == encodeToAscii(word)
         IN  [tokens |-> acc.tokens \o asciiTokens,
              steps  |-> Append(acc.steps,
                             [step    |-> index,
                              input   |-> word,
                              process |-> [found |-> FALSE, word |-> word],
                              output  |-> asciiTokens])]

RECURSIVE encodeWords(_, _, _)
encodeWords(words, index, acc) ==
    IF index > Len(words) THEN acc
    ELSE encodeWords(words, index + 1, encodeWord(words[index], index, acc))

\* encodeText with the reset written "this.encodingSteps.length = 0": the
\* array the field refers to is emptied and filled again, not replaced.
encodeText_ClearsInPlace(text) ==
    IF text = <<>>
    THEN [ret |-> [tokens |-> <<>>, steps |-> <<>>], encodingSteps |-> encodingSteps,
          stepsArray |-> "kept"]
    ELSE LET done == encodeWords(tokenizeWords(text), 1, [tokens |-> <<>>, steps |-> <<>>])
         IN  [ret |-> [tokens         |-> done.tokens,
                       steps          |-> done.steps,
                       originalText   |-> text,
                       tokenCount     |-> Len(done.tokens),
                       characterCount |-> Len(text)],
              encodingSteps |-> done.steps,
              stepsArray    |-> "reused"]

\* encodeText(text): ret is the returned object, encodingSteps the value of
\* this.encodingSteps when the call returns.  stepsArray tells which array
\* object the field refers to then: "kept" is the array it referred to before
\* the call, untouched (the early return, whose steps: [] is an array of its
\* own); "new" is an array the call created ("this.encodingSteps = []") and
\* filled, and ret.steps is that same array ("steps: this.encodingSteps").
encodeText(text) ==
    IF text = <<>>
    THEN [ret |-> [tokens |-> <<>>, steps |-> <<>>], encodingSteps |-> encodingSteps,
          stepsArray |-> "kept"]
    ELSE LET done == encodeWords(tokenizeWords(text), 1, [tokens |-> <<>>, steps |-> <<>>])
         IN  [ret |-> [tokens         |-> done.tokens,
                       steps          |-> done.steps,
                       originalText   |-> text,
                       tokenCount     |-> Len(done.tokens),
                       characterCount |-> Len(text)],
              encodingSteps |-> done.steps,
              stepsArray    |-> "new"]

(***************************************************************************)
(* decodeTokens                                                            *)
(***************************************************************************)

\* The text '<UNK>'
UnknownText == <<60, 85, 78, 75, 62>>

\* decodeToken appending nothing for an unknown token
decodeToken_UnknownSkipped(token) ==
    IF MapHas(reverseVocabulary, token)
    THEN [branch |-> "vocabulary", output |-> MapGet(reverseVocabulary, token)]
    ELSE IF token >= asciiOffset
    THEN [branch |-> "ascii", output |-> <<fromCharCode(token - asciiOffset)>>]
    ELSE [branch |-> "unknown", output |-> <<>>]

\* decodeToken taking the ASCII branch only for ids whose character code
\* exists (id - offset below 65536), ids beyond being unknown
decodeToken_RangeChecked(token) ==
    IF MapHas(reverseVocabulary, token)
    THEN [branch |-> "vocabulary", output |-> MapGet(reverseVocabulary, token)]
    ELSE IF token >= asciiOffset /\ token - asciiOffset < CharCodeRange
    THEN [branch |-> "ascii", output |-> <<fromCharCode(token - asciiOffset)>>]
    ELSE [branch |-> "unknown", output |-> UnknownText]

\* decodeToken with "token > this.asciiOffset" for the ASCII branch
decodeToken_OffsetExclusive(token) ==
    IF MapHas(reverseVocabulary, token)
    THEN [branch |-> "vocabulary", output |-> MapGet(reverseVocabulary, token)]
    ELSE IF token > asciiOffset
    THEN [branch |-> "ascii", output |-> <<fromCharCode(token - asciiOffset)>>]
    ELSE [branch |-> "unknown", output |-> UnknownText]

\* The text the body of tokens.forEach appends for one token, and the branch
\* taken ("vocabulary", "ascii" or "unknown")
decodeToken(token) ==
    IF MapHas(reverseVocabulary, token)
    THEN [branch |-> "vocabulary", output |-> MapGet(reverseVocabulary, token)]
    ELSE IF token >= asciiOffset
    THEN [branch |-> "ascii", output |-> <<fromCharCode(token - asciiOffset)>>]
    ELSE [branch |-> "unknown", output |-> UnknownText]

\* decodeLoop with "decodedText += ' ' + text" from the second token on: the
\* decoded units are separated by a plain space
RECURSIVE decodeLoop_Separated(_, _, _)
decodeLoop_Separated(tokens, index, acc) ==
    IF index > Len(tokens) THEN acc
    ELSE LET d == decodeToken(tokens[index])
         IN  decodeLoop_Separated(tokens, index + 1,
                 [text  |-> acc.text \o (IF index > 1 THEN <<32>> ELSE <<>>) \o d.output,
                  steps |-> Append(acc.steps,
                                [step    |-> index,
                                 input   |-> tokens[index],
                                 process |-> [branch |-> d.branch, token |-> tokens[index]],
                                 output  |-> d.output])])

\* tokens.forEach from index (1-based) on: acc is [text, steps]
RECURSIVE decodeLoop(_, _, _)
decodeLoop(tokens, index, acc) ==
    IF index > Len(tokens) THEN acc
    ELSE LET d == decodeToken(tokens[index])
         IN  decodeLoop(tokens, index + 1,
                 [text  |-> acc.text \o d.output,
                  steps |-> Append(acc.steps,
                                [step    |-> index,
                                 input   |-> tokens[index],
                                 process |-> [branch |-> d.branch, token |-> tokens[index]],
                                 output  |-> d.output])])

\* decodeTokens(tokens): ret is the returned object, decodingSteps the value
\* of this.decodingSteps when the call returns, stepsArray the array object
\* the field refers to then (as for encodeText).
decodeTokens(tokens) ==
    IF Len(tokens) = 0
    THEN [ret |-> [text |-> <<>>, steps |-> <<>>], decodingSteps |-> decodingSteps,
          stepsArray |-> "kept"]
    ELSE LET done == decodeLoop(tokens, 1, [text |-> <<>>, steps |-> <<>>])
         IN  [ret |-> [text       |-> done.text,
                       steps      |-> done.steps,
                       tokenCount |-> Len(tokens)],
              decodingSteps |-> done.steps,
              stepsArray    |-> "new"]

(***************************************************************************)
(* getVocabulary                                                           *)
(***************************************************************************)

\* Array.prototype.sort((a, b) => a.token - b.token): the entries in
\* ascending order of token, entries of equal token in their former order.
\* Insertion of e into the sorted sequence s, behind the entries <= e.
sortInsert(s, e) ==
    LET p == Cardinality({j \in 1..Len(s) : s[j].token <= e.token})
    IN  SubSeq(s, 1, p) \o <<e>> \o SubSeq(s, p + 1, Len(s))

\* The entries vocab[lo..hi] inserted one after the other, left to right
\* (by halves, sorted evaluated first, to keep the evaluation shallow)
RECURSIVE sortLoop(_, _, _, _)
sortLoop(vocab, lo, hi, sorted) ==
    IF lo > hi \/ Len(sorted) < 0 THEN sorted
    ELSE IF lo = hi THEN sortInsert(sorted, vocab[lo])
    ELSE LET mid == (lo + hi) \div 2
         IN  sortLoop(vocab, mid + 1, hi, sortLoop(vocab, lo, mid, sorted))

sortByToken(vocab) == sortLoop(vocab, 1, Len(vocab), <<>>)

\* The entries pushed by the loop over this.vocabulary.entries()
vocabularyEntries(searchTerm) ==
    LET Matches(e) == \/ searchTerm = <<>>
                      \/ includes(toLowerCase(e.key), toLowerCase(searchTerm))
        kept == SelectSeq(vocabulary, Matches)
    IN  [k \in 1..Len(kept) |->
            [character |-> kept[k].key, token |-> kept[k].value, type |-> "vocabulary"]]

\* asciiEntries with the loop "for (let i = 32; i < 126; i++)"
asciiEntries_Exclusive(searchTerm) ==
    LET all == [k \in 1..94 |->
                   [character |-> <<fromCharCode(k + 31)>>,
                    token     |-> (k + 31) + asciiOffset,
                    type      |-> "ascii"]]
        Matches(e) == \/ searchTerm = <<>>
                      \/ includes(e.character, searchTerm)
                      \/ includes(toString(e.token), searchTerm)
    IN  SelectSeq(all, Matches)

\* The entries pushed by the loop "for (let i = 32; i <= 126; i++)"
asciiEntries(searchTerm) ==
    LET all == [k \in 1..95 |->
                   [character |-> <<fromCharCode(k + 31)>>,
                    token     |-> (k + 31) + asciiOffset,
                    type      |-> "ascii"]]
        Matches(e) == \/ searchTerm = <<>>
                      \/ includes(e.character, searchTerm)
                      \/ includes(toString(e.token), searchTerm)
    IN  SelectSeq(all, Matches)

getVocabulary(searchTerm, includeAscii) ==
    sortByToken(vocabularyEntries(searchTerm)
                \o (IF includeAscii THEN asciiEntries(searchTerm) ELSE <<>>))

(***************************************************************************)
(* getEncodingStats                                                        *)
(***************************************************************************)

\* (num / den * 100).toFixed(1) for integers num and den > 0: the decimal
\* string with one digit after the point, the value rounded to the nearest
\* tenth (a tie to the larger magnitude), "-" in front of a negative value.
\* The rounding is that of the exact quotient; the double the source computes
\* rounds the same way unless the quotient is within an ulp of a tie, which
\* takes a text of 16 characters or more.
toFixed1(num, den) ==
    LET mag    == IF num < 0 THEN -num ELSE num
        tenths == (2 * 1000 * mag + den) \div (2 * den)
    IN  (IF num < 0 THEN <<45>> ELSE <<>>)
        \o toString(tenths \div 10) \o <<46>> \o toString(tenths % 10)

\* getEncodingStats with the operands of the subtraction exchanged
getEncodingStats_Swapped(text) ==
    LET encoded == encodeText(text)
        compressionRatio ==
            IF Len(text) > 0
            THEN toFixed1(Len(encoded.ret.tokens) - Len(text), Len(text))
            ELSE 0
    IN  [ret |-> [characterCount   |-> Len(text),
                  tokenCount       |-> Len(encoded.ret.tokens),
                  compressionRatio |-> compressionRatio,
                  tokens           |-> encoded.ret.tokens],
         encodingSteps |-> encoded.encodingSteps,
         stepsArray    |-> encoded.stepsArray]

\* getEncodingStats(text): ret is the returned object, encodingSteps the
\* value of this.encodingSteps when the call returns (encodeText has run).
\* compressionRatio is the string toFixed(1) gives, or the number 0 for the
\* empty text.
getEncodingStats(text) ==
    LET encoded == encodeText(text)
        compressionRatio ==
            IF Len(text) > 0
            THEN toFixed1(Len(text) - Len(encoded.ret.tokens), Len(text))
            ELSE 0
    IN  [ret |-> [characterCount   |-> Len(text),
                  tokenCount       |-> Len(encoded.ret.tokens),
                  compressionRatio |-> compressionRatio,
                  tokens           |-> encoded.ret.tokens],
         encodingSteps |-> encoded.encodingSteps,
         stepsArray    |-> encoded.stepsArray]

(***************************************************************************)
(* The instance and the calls made on it                                   *)
(***************************************************************************)

\* encodeText that also registers the first unit it had to spell out with
\* the ASCII fallback as a new vocabulary entry
CallEncodeText_LearnsWords(text) ==
    LET r       == encodeText(text)
        spelled == SelectSeq(r.ret.steps, LAMBDA step : ~step.process.found)
        unit    == toLowerCase(spelled[1].input)
        id      == Len(reverseVocabulary)
    IN  /\ encodingSteps' = r.encodingSteps
        /\ lastCall' = [op |-> "encodeText", text |-> text, result |-> r.ret]
        /\ vocabulary' =
               IF spelled = <<>> THEN vocabulary ELSE MapSet(vocabulary, unit, id)
        /\ reverseVocabulary' =
               IF spelled = <<>> THEN reverseVocabulary
               ELSE MapSet(reverseVocabulary, id, unit)
        /\ UNCHANGED <<asciiOffset, decodingSteps>>

CallEncodeText(text) ==
    LET r == encodeText(text)
    IN  /\ encodingSteps' = r.encodingSteps
        /\ lastCall' = [op |-> "encodeText", text |-> text, result |-> r.ret]
        /\ UNCHANGED <<vocabulary, reverseVocabulary, asciiOffset, decodingSteps>>

CallDecodeTokens(tokens) ==
    LET r == decodeTokens(tokens)
    IN  /\ decodingSteps' = r.decodingSteps
        /\ lastCall' = [op |-> "decodeTokens", tokens |-> tokens, result |-> r.ret]
        /\ UNCHANGED <<vocabulary, reverseVocabulary, asciiOffset, encodingSteps>>

CallGetEncodingStats(text) ==
    LET r == getEncodingStats(text)
    IN  /\ encodingSteps' = r.encodingSteps
        /\ lastCall' = [op |-> "getEncodingStats", text |-> text, result |-> r.ret]
        /\ UNCHANGED <<vocabulary, reverseVocabulary, asciiOffset, decodingSteps>>

CallGetVocabulary(searchTerm, includeAscii) ==
    /\ lastCall' = [op |-> "getVocabulary", searchTerm |-> searchTerm,
                    includeAscii |-> includeAscii,
                    result |-> getVocabulary(searchTerm, includeAscii)]
    /\ UNCHANGED <<vocabulary, reverseVocabulary, asciiOffset, encodingSteps, decodingSteps>>

(***************************************************************************)
(* Results a caller keeps                                                  *)
(*                                                                         *)
(* An object a call returned is held by reference: its steps field is an   *)
(* array object, and for a non-empty input that array is the one           *)
(* this.encodingSteps (this.decodingSteps) refers to.  held is one returned *)
(* result a caller kept, read through its references: call is the call and *)
(* the result as the holder sees it now, original the result as it was     *)
(* returned, and the two flags tell whether its steps array still is the   *)
(* array the instance field refers to.                                     *)
(***************************************************************************)

holdVars == <<freshResults, held>>

pageVars == <<ui, timers, lastEvent, encodingCleared>>

NothingHeld ==
    [call |-> [op |-> "none"],
     sharesEncodingSteps |-> FALSE, sharesDecodingSteps |-> FALSE]

\* The result of a call, kept when it is returned
Kept(call, sharesEncodingSteps, sharesDecodingSteps) ==
    [call |-> call, original |-> call.result,
     sharesEncodingSteps |-> sharesEncodingSteps,
     sharesDecodingSteps |-> sharesDecodingSteps]

\* What the holder of h sees after a call that left this.encodingSteps as r
\* tells: an assignment of a new array to the field leaves the held array
\* alone and ends the sharing; a write to the array the field referred to
\* shows in the held result.
readThroughEncodingSteps(h, r) ==
    IF ~h.sharesEncodingSteps THEN h
    ELSE IF r.stepsArray = "new" THEN [h EXCEPT !.sharesEncodingSteps = FALSE]
    ELSE IF r.stepsArray = "reused" THEN [h EXCEPT !.call.result.steps = r.encodingSteps]
    ELSE h

\* The same for this.decodingSteps
readThroughDecodingSteps(h, r) ==
    IF ~h.sharesDecodingSteps THEN h
    ELSE IF r.stepsArray = "new" THEN [h EXCEPT !.sharesDecodingSteps = FALSE]
    ELSE IF r.stepsArray = "reused" THEN [h EXCEPT !.call.result.steps = r.decodingSteps]
    ELSE h

\* A call whose result the caller keeps (keeps) or lets go, while an earlier
\* result may be held
HoldEncodeText(text, keeps) ==
    LET r == encodeText(text)
    IN  /\ CallEncodeText(text)
        /\ held' = IF keeps
                   THEN Kept([op |-> "encodeText", text |-> text, result |-> r.ret],
                             r.stepsArray # "kept", FALSE)
                   ELSE readThroughEncodingSteps(held, r)
        /\ UNCHANGED <<freshResults, pageVars>>

HoldDecodeTokens(tokens, keeps) ==
    LET r == decodeTokens(tokens)
    IN  /\ CallDecodeTokens(tokens)
        /\ held' = IF keeps
                   THEN Kept([op |-> "decodeTokens", tokens |-> tokens, result |-> r.ret],
                             FALSE, r.stepsArray # "kept")
                   ELSE readThroughDecodingSteps(held, r)
        /\ UNCHANGED <<freshResults, pageVars>>

HoldGetEncodingStats(text, keeps) ==
    LET r == getEncodingStats(text)
    IN  /\ CallGetEncodingStats(text)
        /\ held' = IF keeps
                   THEN Kept([op |-> "getEncodingStats", text |-> text, result |-> r.ret],
                             FALSE, FALSE)
                   ELSE readThroughEncodingSteps(held, r)
        /\ UNCHANGED <<freshResults, pageVars>>

(***************************************************************************)
(* The page: UIManager (src/ui.js) and the keyboard shortcuts of            *)
(* TokenVisualizerApp (src/app.js)                                         *)
(*                                                                         *)
(* ui holds the elements of the two conversion panels: the values of the   *)
(* two input fields, the two buttons, what the result panels show, the     *)
(* toast, and the element with the focus.  A panel is modelled by the data *)
(* it renders; "page" is the markup the page ships with.  A handler is an  *)
(* operator on the record w of what a handler can read and write: the      *)
(* page, the pending timers, the tokenizer's traces and last call, and the *)
(* buttons whose click() ran during the event.                             *)
(***************************************************************************)

\* String.prototype.trim()
RECURSIVE trimStart(_)
trimStart(str) ==
    IF str # <<>> /\ Head(str) \in WhiteSpaceChars THEN trimStart(Tail(str)) ELSE str

RECURSIVE trimEnd(_)
trimEnd(str) ==
    IF str # <<>> /\ str[Len(str)] \in WhiteSpaceChars
    THEN trimEnd(SubSeq(str, 1, Len(str) - 1))
    ELSE str

trim(str) == trimEnd(trimStart(str))

\* String.prototype.split(sep) for a one-character separator
RECURSIVE split(_, _)
split(str, sep) ==
    IF \E i \in 1..Len(str) : str[i] = sep
    THEN LET i == CHOOSE k \in 1..Len(str) :
                      str[k] = sep /\ \A j \in 1..(k - 1) : str[j] # sep
         IN  <<SubSeq(str, 1, i - 1)>> \o split(SubSeq(str, i + 1, Len(str)), sep)
    ELSE <<str>>

\* The value of a character as a digit (0-9, a-z, A-Z), 36 for any other
digitValue(c) ==
    IF c \in 48..57 THEN c - 48
    ELSE IF c \in 97..122 THEN c - 87
    ELSE IF c \in 65..90 THEN c - 55
    ELSE 36

\* The longest prefix of str made of digits of the radix
RECURSIVE digitsPrefix(_, _)
digitsPrefix(str, radix) ==
    IF str # <<>> /\ digitValue(Head(str)) < radix
    THEN <<Head(str)>> \o digitsPrefix(Tail(str), radix)
    ELSE <<>>

RECURSIVE numberOf(_, _)
numberOf(digits, radix) ==
    IF digits = <<>> THEN 0
    ELSE radix * numberOf(SubSeq(digits, 1, Len(digits) - 1), radix)
             + digitValue(digits[Len(digits)])

\* parseInt(string) without radix: leading whitespace is skipped, a sign is
\* taken, "0x" or "0X" selects radix 16, and the number is that of the
\* longest prefix of digits; whatever follows the digits is ignored.  NaN
\* when there is no digit.
parseInt(string) ==
    LET trimmed  == trimStart(string)
        negative == trimmed # <<>> /\ trimmed[1] = 45
        unsigned == IF trimmed # <<>> /\ trimmed[1] \in {43, 45}
                    THEN Tail(trimmed) ELSE trimmed
        hex      == Len(unsigned) >= 2 /\ unsigned[1] = 48 /\ unsigned[2] \in {120, 88}
        radix    == IF hex THEN 16 ELSE 10
        digits   == digitsPrefix(IF hex THEN SubSeq(unsigned, 3, Len(unsigned))
                                 ELSE unsigned, radix)
    IN  IF digits = <<>> THEN [isNaN |-> TRUE]
        ELSE [isNaN |-> FALSE,
              num   |-> IF negative THEN -numberOf(digits, radix)
                        ELSE numberOf(digits, radix)]

\* Array.prototype.join(', ') of an array of token ids
RECURSIVE join(_)
join(list) ==
    IF list = <<>> THEN <<>>
    ELSE IF Len(list) = 1 THEN toString(list[1])
    ELSE toString(list[1]) \o <<44, 32>> \o join(Tail(list))

\* The page before DOMContentLoaded: empty fields, enabled buttons, no
\* listener attached
PageLoading ==
    [ready            |-> FALSE,
     inputText        |-> <<>>,
     inputTokens      |-> <<>>,
     activeElement    |-> "body",
     encodeBtn        |-> [innerHTML |-> "page", disabled |-> FALSE],
     decodeBtn        |-> [innerHTML |-> "page", disabled |-> FALSE],
     encodingSequence |-> [shows |-> "page"],
     encodingResult   |-> [shows |-> "page"],
     decodingSequence |-> [shows |-> "page"],
     decodingResult   |-> [shows |-> "page"],
     visualization    |-> [shows |-> "page"],
     toast            |-> [message |-> "", detail |-> <<>>, type |-> "", show |-> FALSE]]

\* What a handler reads and writes, as the state has it
World ==
    [ui            |-> ui,
     timers        |-> timers,
     encodingSteps |-> encodingSteps,
     decodingSteps |-> decodingSteps,
     lastCall      |-> lastCall,
     clicked       |-> <<>>]

\* The traces and the last call after a handler's call of encodeText or
\* getEncodingStats returned r (each handler operator takes what it reads as
\* parameters, so that a call is written once)
encodeReturned(w, op, text, r) ==
    [w EXCEPT !.encodingSteps =
                  IF r.stepsArray = "kept" THEN w.encodingSteps ELSE r.encodingSteps,
              !.lastCall = [op |-> op, text |-> text, result |-> r.ret]]

decodeReturned(w, tokens, r) ==
    [w EXCEPT !.decodingSteps =
                  IF r.stepsArray = "kept" THEN w.decodingSteps ELSE r.decodingSteps,
              !.lastCall = [op |-> "decodeTokens", tokens |-> tokens, result |-> r.ret]]

\* tokenizer.encodeText(text) called by a handler
callEncodeText(w, text) == encodeReturned(w, "encodeText", text, encodeText(text))

\* tokenizer.getEncodingStats(text) called by a handler
callGetEncodingStats(w, text) ==
    encodeReturned(w, "getEncodingStats", text, getEncodingStats(text))

\* tokenizer.decodeTokens(tokens) called by a handler
callDecodeTokens(w, tokens) == decodeReturned(w, tokens, decodeTokens(tokens))

\* showToast(message, type); detail is the part of the message the handler
\* fills in.  The toast shows until its timer hides it (ToastTimeout).
showToast(w, message, detail, type) ==
    [w EXCEPT !.ui.toast =
        [message |-> message, detail |-> detail, type |-> type, show |-> TRUE]]

\* handleTextEncoding once the field is trimmed
scheduleEncode(w, text) ==
    IF text = <<>>
    THEN showToast(w, "Please enter some text to encode", <<>>, "warning")
    ELSE [w EXCEPT !.ui.encodeBtn = [innerHTML |-> "Encoding...", disabled |-> TRUE],
                   !.timers = Append(@, [callback |-> "encode", text |-> text])]

\* handleTextEncoding: the trimmed text of the field is encoded by a callback
\* 300 ms later, and the button is disabled until then
handleTextEncoding(w) == scheduleEncode(w, trim(w.ui.inputText))

\* The index of the first entry parseInt gives NaN for, 0 when there is none
firstInvalid(parsed) ==
    IF \A i \in 1..Len(parsed) : ~parsed[i].isNaN THEN 0
    ELSE CHOOSE i \in 1..Len(parsed) :
             parsed[i].isNaN /\ \A j \in 1..(i - 1) : ~parsed[j].isNaN

\* The try block of handleTokenDecoding and its catch, for the entries and
\* what parseInt made of them
scheduleDecode(w, tokenInput, entries, parsed, invalid) ==
    IF invalid # 0
    THEN showToast(w, "Error: Invalid token: ", trim(entries[invalid]), "error")
    ELSE [w EXCEPT !.ui.decodeBtn = [innerHTML |-> "Decoding...", disabled |-> TRUE],
                   !.timers = Append(@, [callback   |-> "decode",
                                         tokens     |-> [i \in 1..Len(parsed) |->
                                                            parsed[i].num],
                                         tokenInput |-> tokenInput])]

\* tokenInput.split(',').map(t => parseInt(t.trim()))
parseEntries(entries) == [i \in 1..Len(entries) |-> parseInt(trim(entries[i]))]

\* handleTokenDecoding once the field is trimmed
decodeInput(w, tokenInput, entries, parsed) ==
    IF tokenInput = <<>>
    THEN showToast(w, "Please enter tokens to decode", <<>>, "warning")
    ELSE scheduleDecode(w, tokenInput, entries, parsed, firstInvalid(parsed))

\* handleTokenDecoding: the trimmed field is split at the commas and each
\* entry goes through parseInt(t.trim()); the first entry parseInt gives NaN
\* for throws, which the catch reports; else the tokens are decoded by a
\* callback 300 ms later (tokenInput is in the callback's scope).
handleTokenDecoding(w) ==
    decodeInput(w, trim(w.ui.inputTokens),
                split(trim(w.ui.inputTokens), 44),
                parseEntries(split(trim(w.ui.inputTokens), 44)))

\* handleClearAll
handleClearAll(w) ==
    showToast(
        [w EXCEPT !.ui.inputText = <<>>,
                  !.ui.encodingSequence = [shows |-> "nothing"],
                  !.ui.encodingResult = [shows |-> "nothing"],
                  !.ui.visualization =
                      [shows |-> "nothing", charCount |-> <<48>>,
                       tokenCount |-> <<48>>, compressionRatio |-> <<48, 37>>],
                  !.ui.activeElement = "input-text"],
        "All fields cleared successfully", <<>>, "success")

\* handleClearDecoding
handleClearDecoding(w) ==
    showToast(
        [w EXCEPT !.ui.inputTokens = <<>>,
                  !.ui.decodingSequence = [shows |-> "nothing"],
                  !.ui.decodingResult = [shows |-> "nothing"],
                  !.ui.activeElement = "input-tokens"],
        "Decoding fields cleared successfully", <<>>, "success")

\* The text a token is shown with in the token grid
tokenText(token) ==
    IF MapHas(reverseVocabulary, token) THEN MapGet(reverseVocabulary, token)
    ELSE <<fromCharCode(token - asciiOffset)>>

\* The statistics and the token grid updateVisualization writes, for the
\* statistics and the tokens the two calls returned
showVisualization(w, stats) ==
    [w EXCEPT !.ui.visualization =
        [shows            |-> "token-grid",
         charCount        |-> toString(stats.characterCount),
         tokenCount       |-> toString(stats.tokenCount),
         compressionRatio |-> stats.compressionRatio \o <<37>>,
         tokens           |-> [i \in 1..Len(w.lastCall.result.tokens) |->
                                  [token |-> w.lastCall.result.tokens[i],
                                   text  |-> tokenText(w.lastCall.result.tokens[i])]]]]

\* updateVisualization after its call of getEncodingStats: the call of
\* encodeText and the display
visualize(w) == showVisualization(callEncodeText(w, w.ui.inputText), w.lastCall.result)

\* updateVisualization: the statistics and the token grid of the text in the
\* field, as it is (not trimmed)
updateVisualization(w) ==
    IF w.ui.inputText = <<>>
    THEN [w EXCEPT !.ui.visualization =
             [shows |-> "empty-state", charCount |-> <<48>>,
              tokenCount |-> <<48>>, compressionRatio |-> <<48, 37>>]]
    ELSE visualize(callGetEncodingStats(w, w.ui.inputText))

\* handleTextInput
handleTextInput(w) == updateVisualization(w)

\* An input event on an element: the listeners attachEventListeners put on
\* it, in the order they were added (the text field has two)
inputEvent(w, target) ==
    IF target = "input-text" THEN updateVisualization(handleTextInput(w)) ELSE w

\* displayEncodingResult(result)
displayEncodingResult(w, result) ==
    [w EXCEPT !.ui.encodingSequence = [shows |-> "steps", steps |-> result.steps],
              !.ui.encodingResult =
                  [shows |-> "text", text |-> <<91>> \o join(result.tokens) \o <<93>>]]

\* displayDecodingResult(result)
displayDecodingResult(w, result) ==
    [w EXCEPT !.ui.decodingSequence = [shows |-> "steps", steps |-> result.steps],
              !.ui.decodingResult = [shows |-> "text", text |-> result.text]]

\* The callback handleTextEncoding hands to setTimeout, after its call of
\* encodeText
encoded(w) ==
    [updateVisualization(displayEncodingResult(w, w.lastCall.result))
        EXCEPT !.ui.encodeBtn = [innerHTML |-> "Encode Text", disabled |-> FALSE]]

\* The callback handleTextEncoding hands to setTimeout
encodeTimeout(w, text) == encoded(callEncodeText(w, text))

\* The callback handleTokenDecoding hands to setTimeout, after its call of
\* decodeTokens
decoded(w) ==
    [displayDecodingResult(w, w.lastCall.result)
        EXCEPT !.ui.decodeBtn = [innerHTML |-> "Decode Tokens", disabled |-> FALSE]]

\* The callback handleTokenDecoding hands to setTimeout
decodeTimeout(w, tokens) == decoded(callDecodeTokens(w, tokens))

\* button.click(), and a click of the user: a disabled button dispatches no
\* click event; else the listener attachEventListeners put on it runs
click(w, button) ==
    IF button = "encode-btn"
    THEN IF w.ui.encodeBtn.disabled THEN w
         ELSE handleTextEncoding([w EXCEPT !.clicked = Append(@, button)])
    ELSE IF button = "decode-btn"
    THEN IF w.ui.decodeBtn.disabled THEN w
         ELSE handleTokenDecoding([w EXCEPT !.clicked = Append(@, button)])
    ELSE IF button = "clear-btn"
    THEN handleClearAll([w EXCEPT !.clicked = Append(@, button)])
    ELSE handleClearDecoding([w EXCEPT !.clicked = Append(@, button)])

\* handleKeyboardShortcuts, "Ctrl/Cmd + Enter: Encode text"
encodeShortcut(w, event) ==
    IF (event.ctrlKey \/ event.metaKey) /\ event.key = "Enter"
           /\ ~w.ui.encodeBtn.disabled
    THEN click(w, "encode-btn")
    ELSE w

\* handleKeyboardShortcuts, "Ctrl/Cmd + Shift + Enter: Decode tokens"
decodeShortcut(w, event) ==
    IF (event.ctrlKey \/ event.metaKey) /\ event.shiftKey /\ event.key = "Enter"
           /\ ~w.ui.decodeBtn.disabled
    THEN click(w, "decode-btn")
    ELSE w

\* handleKeyboardShortcuts, "Escape: Clear current input"
escapeShortcut(w, event) ==
    IF event.key = "Escape" /\ w.ui.activeElement = "input-text"
    THEN inputEvent([w EXCEPT !.ui.inputText = <<>>], "input-text")
    ELSE IF event.key = "Escape" /\ w.ui.activeElement = "input-tokens"
    THEN inputEvent([w EXCEPT !.ui.inputTokens = <<>>], "input-tokens")
    ELSE w

\* handleKeyboardShortcuts(event): the three tests run one after the other
handleKeyboardShortcuts(w, event) ==
    escapeShortcut(decodeShortcut(encodeShortcut(w, event), event), event)

\* The state after an event whose handlers left w; the history of the
\* encoding panel follows the buttons clicked while the event was handled
Handled(w) ==
    /\ ui' = w.ui
    /\ timers' = w.timers
    /\ encodingSteps' = w.encodingSteps
    /\ decodingSteps' = w.decodingSteps
    /\ lastCall' = w.lastCall
    /\ encodingCleared' =
           IF \E i \in 1..Len(w.clicked) : w.clicked[i] = "clear-btn" THEN TRUE
           ELSE IF \E i \in 1..Len(w.clicked) : w.clicked[i] = "encode-btn" THEN FALSE
           ELSE encodingCleared
    /\ UNCHANGED <<vocabulary, reverseVocabulary, asciiOffset, holdVars>>

\* DOMContentLoaded: new UIManager() attaches the listeners and lists the
\* vocabulary (initializeVocabularyDisplay), and the application registers
\* the keydown handler
DOMContentLoaded ==
    /\ ~ui.ready
    /\ Handled([World EXCEPT
           !.ui.ready = TRUE,
           !.lastCall = [op |-> "getVocabulary", searchTerm |-> <<>>,
                         includeAscii |-> FALSE,
                         result |-> getVocabulary(<<>>, FALSE)]])
    /\ lastEvent' = [type |-> "DOMContentLoaded", clicked |-> <<>>]

\* The user changes the text field to text
TypeText(text) ==
    /\ ui.ready
    /\ text # ui.inputText
    /\ Handled(inputEvent([World EXCEPT !.ui.inputText = text,
                                        !.ui.activeElement = "input-text"],
                          "input-text"))
    /\ lastEvent' = [type |-> "input", target |-> "input-text", clicked |-> <<>>]

\* The user changes the token field to value
TypeTokens(value) ==
    /\ ui.ready
    /\ value # ui.inputTokens
    /\ Handled(inputEvent([World EXCEPT !.ui.inputTokens = value,
                                        !.ui.activeElement = "input-tokens"],
                          "input-tokens"))
    /\ lastEvent' = [type |-> "input", target |-> "input-tokens", clicked |-> <<>>]

\* The user moves the focus
Focus(element) ==
    /\ ui.ready
    /\ element # ui.activeElement
    /\ Handled([World EXCEPT !.ui.activeElement = element])
    /\ lastEvent' = [type |-> "focus", target |-> element, clicked |-> <<>>]

\* The state after an event of the given type on a button, handled to w
Clicks(type, button, w) ==
    /\ Handled(w)
    /\ lastEvent' = [type |-> type, target |-> button, clicked |-> w.clicked]

\* The user clicks a button that is not disabled
Click(button) ==
    /\ ui.ready
    /\ button = "encode-btn" => ~ui.encodeBtn.disabled
    /\ button = "decode-btn" => ~ui.decodeBtn.disabled
    /\ Clicks("click", button, click(World, button))

ClickEncode == Click("encode-btn")

ClickDecode == Click("decode-btn")

ClickClear == Click("clear-btn")

ClickClearDecode == Click("clear-decode-btn")

\* The state after a keydown event handled to w
Pressed(event, w) ==
    /\ Handled(w)
    /\ lastEvent' = [type    |-> "keydown",
                     event   |-> event,
                     enabled |-> [encode |-> ~ui.encodeBtn.disabled,
                                  decode |-> ~ui.decodeBtn.disabled],
                     clicked |-> w.clicked]

\* A keydown event; enabled tells which of the two buttons were enabled when
\* the event arrived
KeyDown(event) ==
    /\ ui.ready
    /\ Pressed(event, handleKeyboardShortcuts(World, event))

\* The oldest pending callback runs (the callbacks have the same delay, so
\* they run in the order they were set)
TimerFires ==
    /\ timers # <<>>
    /\ IF Head(timers).callback = "encode"
       THEN /\ Handled(encodeTimeout([World EXCEPT !.timers = Tail(@)],
                                     Head(timers).text))
            /\ lastEvent' = [type |-> "timeout", callback |-> "encode",
                             text |-> Head(timers).text, clicked |-> <<>>]
       ELSE /\ Handled(decodeTimeout([World EXCEPT !.timers = Tail(@)],
                                     Head(timers).tokens))
            /\ lastEvent' = [type |-> "timeout", callback |-> "decode",
                             tokens |-> Head(timers).tokens,
                             tokenInput |-> Head(timers).tokenInput,
                             clicked |-> <<>>]

\* The callback showToast sets hides the toast
ToastTimeout ==
    /\ ui.toast.show
    /\ Handled([World EXCEPT !.ui.toast.show = FALSE])
    /\ lastEvent' = [type |-> "timeout", callback |-> "toast", clicked |-> <<>>]

(***************************************************************************)
(* Inputs                                                                  *)
(***************************************************************************)

\* All sequences over S of length at most n
BoundedSeq(S, n) == UNION {[1..k -> S] : k \in 0..n}

MaxTextLen == 3
MaxTokens == 2
MaxCallLen == 1

\* 'a', 't', 'A' (the words "a", "at" in three spellings), 'x', the plain
\* space, tab, '.', the no-break space (whitespace that is no vocabulary
\* unit), and the two halves of the surrogate pair of U+1F600
Alphabet == {97, 116, 65, 120, 32, 9, 46, 160, 55357, 56832}

\* Every Latin-1 character, the three characters toLowerCase maps across
\* ranges, a line separator, the surrogate halves, and the largest codes
SingleChars == (0..255) \cup {304, 8232, 8490, 8491, 55357, 56832, 63535, 63536, 65535}

\* "the cat", "xyz123!@#", "Hello", "Hello world", and "If so" (two words
\* the seed list has more than once)
ScenarioTexts ==
    { <<116,104,101,32,99,97,116>>,
      <<120,121,122,49,50,51,33,64,35>>,
      <<72,101,108,108,111>>,
      <<72,101,108,108,111,32,119,111,114,108,100>>,
      <<73,102,32,115,111>> }

Texts ==
    BoundedSeq(Alphabet, MaxTextLen) \cup {<<c>> : c \in SingleChars} \cup ScenarioTexts

\* A negative id, ids of the vocabulary (0 '<PAD>', 10 'the', 207 ' '), the
\* ids between the vocabulary and the ASCII offset, ids from the offset on,
\* and ids around offset + 65536
TokenIds == {-1, 0, 10, 207, 208, 1999, 2000, 2072, 2101, 67535, 67536, 999999}

ScenarioTokenLists ==
    { <<2072, 2101>>, <<999999>>, <<72, 101, 108, 108, 111>> }

TokenLists ==
    BoundedSeq(TokenIds, MaxTokens)
        \cup {<<id>> : id \in MapKeys(initializeVocabulary.reverseVocabulary)}
        \cup ScenarioTokenLists

\* '', 'th', 'A', '2', '21'
SearchTerms == { <<>>, <<116,104>>, <<65>>, <<50>>, <<50,49>> }

\* The inputs of the calls that follow one another on the one instance
CallTexts == BoundedSeq({97, 120, 32}, MaxCallLen)
CallTokenLists == BoundedSeq({10, 500, 2097}, MaxCallLen)
CallSearchTerms == { <<116,104>>, <<50,49>> }

\* The inputs of the calls whose results are kept: texts of 'a' and the plain
\* space, lists of the id of 'the' and the ASCII id of 'a'
HoldTexts == BoundedSeq({97, 32}, MaxCallLen)
HoldTokenLists == BoundedSeq({10, 2097}, MaxCallLen)

\* What the user types into the token field:
\* '', '10', '12abc', '1.5', '1,,2', ' 10, 2097 '
TokenInputs ==
    { <<>>,
      <<49, 48>>,
      <<49, 50, 97, 98, 99>>,
      <<49, 46, 53>>,
      <<49, 44, 44, 50>>,
      <<32, 49, 48, 44, 32, 50, 48, 57, 55, 32>> }

\* What the user types into the two fields before a shortcut: '' and 'a',
\* '' and '10'
KeyboardTexts == { <<>>, <<97>> }
KeyboardTokenInputs == { <<>>, <<49, 48>> }

\* What the user types into the text field of the encoding panel: '', 'a',
\* and 'x ' (trimmed to 'x' by handleTextEncoding)
EncodePanelTexts == { <<>>, <<97>>, <<120, 32>> }

\* The keydown events of Enter and Escape with every combination of the
\* modifiers the handler reads
KeyEvents ==
    [key : {"Enter", "Escape"}, ctrlKey : BOOLEAN, metaKey : BOOLEAN, shiftKey : BOOLEAN]

\* The elements the focus moves between
FocusTargets == {"input-text", "input-tokens", "body"}

(***************************************************************************)
(* Specifications                                                          *)
(***************************************************************************)

\* The encodeText, decodeTokens and getEncodingStats calls of the inputs
\* that follow one another, as <<method, argument>>
ProbeCalls ==
    ({"encodeText", "getEncodingStats"} \X CallTexts)
        \cup ({"decodeTokens"} \X CallTokenLists)

\* What each of these calls returns, evaluated on the instance as it is
FreshResults ==
    [c \in ProbeCalls |->
        IF c[1] = "encodeText" THEN encodeText(c[2]).ret
        ELSE IF c[1] = "decodeTokens" THEN decodeTokens(c[2]).ret
        ELSE getEncodingStats(c[2]).ret]

\* The scripts have run: new TokenVisualizer() (tokenizer.js line 293), and
\* the page waits for DOMContentLoaded.  freshResults is taken on this
\* instance, before any call, and nothing is held.
Init ==
    /\ vocabulary = initializeVocabulary.vocabulary
    /\ reverseVocabulary = initializeVocabulary.reverseVocabulary
    /\ asciiOffset = initializeVocabulary.asciiOffset
    /\ encodingSteps = <<>>
    /\ decodingSteps = <<>>
    /\ lastCall = [op |-> "none"]
    /\ freshResults = FreshResults
    /\ held = NothingHeld
    /\ ui = PageLoading
    /\ timers = <<>>
    /\ lastEvent = [type |-> "none", clicked |-> <<>>]
    /\ encodingCleared = FALSE

\* Any sequence of calls on the global instance
Next ==
    \/ \E text \in CallTexts : CallEncodeText(text) /\ UNCHANGED <<holdVars, pageVars>>
    \/ \E tokens \in CallTokenLists : CallDecodeTokens(tokens) /\ UNCHANGED <<holdVars, pageVars>>
    \/ \E text \in CallTexts : CallGetEncodingStats(text) /\ UNCHANGED <<holdVars, pageVars>>
    \/ \E searchTerm \in CallSearchTerms, includeAscii \in BOOLEAN :
           CallGetVocabulary(searchTerm, includeAscii) /\ UNCHANGED <<holdVars, pageVars>>

Spec == Init /\ [][Next]_vars

\* One call on the freshly constructed instance, with an input of the larger
\* sets: the specification the claims about what a call returns are checked
\* under.
Fresh == lastCall.op = "none"

FirstEncodeText ==
    Fresh /\ UNCHANGED <<holdVars, pageVars>> /\ \E text \in Texts : CallEncodeText(text)

FirstDecodeTokens ==
    Fresh /\ UNCHANGED <<holdVars, pageVars>> /\ \E tokens \in TokenLists : CallDecodeTokens(tokens)

FirstGetEncodingStats ==
    Fresh /\ UNCHANGED <<holdVars, pageVars>> /\ \E text \in Texts : CallGetEncodingStats(text)

FirstGetVocabulary ==
    /\ Fresh
    /\ UNCHANGED <<holdVars, pageVars>>
    /\ \E searchTerm \in SearchTerms, includeAscii \in BOOLEAN :
           CallGetVocabulary(searchTerm, includeAscii)

FirstCall ==
    \/ FirstEncodeText
    \/ FirstDecodeTokens
    \/ FirstGetEncodingStats
    \/ FirstGetVocabulary

SpecCall == Init /\ [][FirstCall]_vars

\* A round trip on the fresh instance: the caller encodes a text, keeps the
\* result, and decodes the tokens of that result.
EncodeFirst ==
    Fresh /\ \E text \in Texts : HoldEncodeText(text, TRUE)

DecodeEncoded ==
    /\ lastCall.op = "encodeText"
    /\ held.call.op = "encodeText"
    /\ HoldDecodeTokens(held.call.result.tokens, FALSE)

NextRoundTrip ==
    \/ EncodeFirst
    \/ DecodeEncoded

SpecRoundTrip == Init /\ [][NextRoundTrip]_vars

\* Any sequence of encodeText, decodeTokens and getEncodingStats calls on the
\* global instance whose callers keep results: each call's result is kept in
\* place of the one held, or let go.
NextHold ==
    \/ \E text \in HoldTexts, keeps \in BOOLEAN : HoldEncodeText(text, keeps)
    \/ \E tokens \in HoldTokenLists, keeps \in BOOLEAN : HoldDecodeTokens(tokens, keeps)
    \/ \E text \in HoldTexts, keeps \in BOOLEAN : HoldGetEncodingStats(text, keeps)

SpecHold == Init /\ [][NextHold]_vars

\* The decoding panel of the page in the browser: the user types token
\* lists and clicks the two buttons of the panel; the events arrive one at a
\* time, each handled to its end.
NextDecodePanel ==
    \/ DOMContentLoaded
    \/ \E value \in TokenInputs : TypeTokens(value)
    \/ ClickDecode
    \/ ClickClearDecode
    \/ TimerFires
    \/ ToastTimeout

SpecDecodePanel == Init /\ [][NextDecodePanel]_vars

\* The encoding panel of the page in the browser: the user types texts and
\* clicks Encode and Clear; the events arrive one at a time, each handled to
\* its end, and a callback set with setTimeout runs once its delay is over.
NextEncodePanel ==
    \/ DOMContentLoaded
    \/ \E text \in EncodePanelTexts : TypeText(text)
    \/ ClickEncode
    \/ ClickClear
    \/ TimerFires
    \/ ToastTimeout

\* The oldest pending callback runs: the step TimerFires takes, told by what
\* it does to timers.  TimerFires is the only action that takes the head off
\* timers and it is enabled exactly when timers is not empty, so fairness for
\* these steps is fairness for TimerFires: the browser runs a callback set
\* with setTimeout once its 300 ms are over.
CallbackRuns == timers # <<>> /\ timers' = Tail(timers)

SpecEncodePanel == Init /\ [][NextEncodePanel]_vars /\ WF_timers(CallbackRuns)

\* The keyboard of the page in the browser: the user types into the two
\* fields, moves the focus and presses Enter and Escape with modifiers.
NextKeyboard ==
    \/ DOMContentLoaded
    \/ \E text \in KeyboardTexts : TypeText(text)
    \/ \E value \in KeyboardTokenInputs : TypeTokens(value)
    \/ \E element \in FocusTargets : Focus(element)
    \/ \E event \in KeyEvents : KeyDown(event)
    \/ TimerFires

SpecKeyboard == Init /\ [][NextKeyboard]_vars

(***************************************************************************)
(* Properties                                                              *)
(***************************************************************************)

\* The concatenation of the strings of a sequence of strings
RECURSIVE concat(_)
concat(ss) == IF ss = <<>> THEN <<>> ELSE Head(ss) \o concat(Tail(ss))

EncodeReturned == lastCall.op = "encodeText"
DecodeReturned == lastCall.op = "decodeTokens"
StatsReturned == lastCall.op = "getEncodingStats"

\* C1: ASCII fallback round trip.  When encodeText(c) has returned for a
\* one-character text c that is a unit of its own and whose lowercased form is
\* no vocabulary key, decodeTokens of the returned tokens returns the text c.
C1_AsciiRoundTrip ==
    (/\ EncodeReturned
     /\ Len(lastCall.text) = 1
     /\ tokenizeWords(lastCall.text) = <<lastCall.text>>
     /\ ~MapHas(vocabulary, toLowerCase(lastCall.text)))
    => decodeTokens(lastCall.result.tokens).ret.text = lastCall.text

\* encodeText('X') returned [2088], which decodes to 'X' (not to 'x')
C1_Witness ==
    /\ EncodeReturned
    /\ lastCall.text = <<88>>
    /\ ~MapHas(vocabulary, toLowerCase(lastCall.text))
    /\ lastCall.result.tokens = <<2088>>
    /\ decodeTokens(lastCall.result.tokens).ret.text = <<88>>

\* C2: Token count.  The object every encodeText call returns, the call with
\* the empty text included, has a tokenCount field that is a number >= 0 and
\* equals the length of its tokens.
C2_TokenCount ==
    EncodeReturned =>
        /\ "tokenCount" \in DOMAIN lastCall.result
        /\ lastCall.result.tokenCount >= 0
        /\ lastCall.result.tokenCount = Len(lastCall.result.tokens)

\* The value of a string toFixed(1) gives, in tenths ("-12.5" is -125)
RECURSIVE digitsValue(_)
digitsValue(ds) ==
    IF ds = <<>> THEN 0
    ELSE 10 * digitsValue(SubSeq(ds, 1, Len(ds) - 1)) + (ds[Len(ds)] - 48)

fixed1Tenths(str) ==
    LET neg    == str # <<>> /\ str[1] = 45
        digits == SelectSeq(str, LAMBDA ch : ch \in 48..57)
    IN  IF neg THEN -digitsValue(digits) ELSE digitsValue(digits)

\* The compression ratio of a getEncodingStats result in tenths of a percent
\* (the number 0 of the empty text is 0)
ratioTenths(stats) ==
    IF stats.characterCount = 0 THEN stats.compressionRatio
    ELSE fixed1Tenths(stats.compressionRatio)

\* C3 as stated: there is an input text for which tokenization expands the
\* input: getEncodingStats(text) has tokenCount > characterCount and a
\* compression ratio below 0.
C3_RatioCanBeNegative ==
    \E text \in Texts :
        LET stats == getEncodingStats(text).ret
        IN  /\ stats.tokenCount > stats.characterCount
            /\ ratioTenths(stats) < 0

\* C3 (amended): the compression ratio is not clamped, and it is never
\* negative.  Every getEncodingStats result has tokenCount <= characterCount,
\* and its ratio is the value (characterCount - tokenCount) / characterCount
\* * 100 to the nearest tenth, which is >= 0.
C3_RatioNeverNegative ==
    StatsReturned =>
        LET stats == lastCall.result
            chars == stats.characterCount
            saved == stats.characterCount - stats.tokenCount
            off   == 1000 * saved - ratioTenths(stats) * chars
        IN  /\ stats.tokenCount <= chars
            /\ ratioTenths(stats) >= 0
            /\ chars > 0 => (2 * off <= chars /\ -2 * off <= chars)

\* getEncodingStats("xyz123!@#"): nine characters, nine tokens, ratio "0.0"
C3_Witness ==
    /\ StatsReturned
    /\ lastCall.text = <<120,121,122,49,50,51,33,64,35>>
    /\ lastCall.result.characterCount = 9
    /\ lastCall.result.tokenCount = 9
    /\ lastCall.result.compressionRatio = <<48, 46, 48>>

\* C4: Round trip for vocabulary units.  When decodeTokens has returned for
\* the one-token list [vocabulary.get(u)] of a key u of the forward map, the
\* returned text is u.
C4_VocabularyRoundTrip ==
    DecodeReturned =>
        \A i \in 1..Len(vocabulary) :
            lastCall.tokens = <<vocabulary[i].value>>
                => lastCall.result.text = vocabulary[i].key

\* decodeTokens([vocabulary.get('which')]) returned 'which', a word the seed
\* list has more than once (another id of the inverse map is 'which' too)
C4_Witness ==
    /\ DecodeReturned
    /\ MapHas(vocabulary, <<119,104,105,99,104>>)
    /\ lastCall.tokens = <<MapGet(vocabulary, <<119,104,105,99,104>>)>>
    /\ lastCall.result.text = <<119,104,105,99,104>>
    /\ \E j \in 1..Len(reverseVocabulary) :
           /\ reverseVocabulary[j].value = <<119,104,105,99,104>>
           /\ reverseVocabulary[j].key # lastCall.tokens[1]

\* A token id that is no key of the inverse map and is below the ASCII offset
IsUnknownToken(token) == ~MapHas(reverseVocabulary, token) /\ token < 2000

\* C5: Unknown tokens degrade per token.  Every decodeTokens call returns a
\* text, and the text is, position by position, '<UNK>' for a token that is
\* unknown and what decodeTokens returns for that token alone for every
\* other token.
C5_UnknownPerToken ==
    DecodeReturned =>
        LET tokens == lastCall.tokens
            piece(i) == IF IsUnknownToken(tokens[i]) THEN UnknownText
                        ELSE decodeTokens(<<tokens[i]>>).ret.text
        IN  /\ "text" \in DOMAIN lastCall.result
            /\ lastCall.result.text = concat([i \in 1..Len(tokens) |-> piece(i)])
            /\ \A i \in 1..Len(lastCall.result.steps) :
                   IsUnknownToken(tokens[i])
                       => lastCall.result.steps[i].output = UnknownText

\* decodeTokens([-1, 10]) returned '<UNK>the'
C5_Witness ==
    /\ DecodeReturned
    /\ lastCall.tokens = <<-1, 10>>
    /\ IsUnknownToken(-1)
    /\ lastCall.result.text = UnknownText \o <<116, 104, 101>>

\* C6 as stated: decodeTokens([999999]).text is '<UNK>'.
C6_DecodesToUnknown ==
    (DecodeReturned /\ lastCall.tokens = <<999999>>)
        => lastCall.result.text = UnknownText

\* C6 (amended): 999999 is not below the ASCII offset, so decodeTokens([999999])
\* returns the one character with code (999999 - 2000) mod 65536 = 14959, not
\* '<UNK>'; an id below the offset that is no vocabulary id, such as 1999,
\* decodes to '<UNK>'.
C6_DecodesToWrappedChar ==
    DecodeReturned =>
        /\ lastCall.tokens = <<999999>> => lastCall.result.text = <<14959>>
        /\ lastCall.tokens = <<1999>> => lastCall.result.text = UnknownText

C6_Witness ==
    /\ DecodeReturned
    /\ lastCall.tokens = <<999999>>
    /\ lastCall.result.text = <<14959>>
    /\ lastCall.result.steps[1].process.branch = "ascii"

\* C7 as stated: no id of the inverse map is >= 2000, and for every token id
\* >= 2000 decodeTokens appends the single character with code id - 2000, in
\* input order and with no separator; decodeTokens([2072, 2101]).text is "He".
C7_AsciiBySubtraction ==
    /\ \A j \in 1..Len(reverseVocabulary) : reverseVocabulary[j].key < 2000
    /\ DecodeReturned =>
        /\ \A i \in 1..Len(lastCall.result.steps) :
               lastCall.tokens[i] >= 2000
                   => lastCall.result.steps[i].output = <<lastCall.tokens[i] - 2000>>
        /\ lastCall.result.text =
               concat([i \in 1..Len(lastCall.result.steps) |->
                          lastCall.result.steps[i].output])
        /\ lastCall.tokens = <<2072, 2101>> => lastCall.result.text = <<72, 101>>

\* C7 (amended): no id of the inverse map is >= 2000, and for every token id
\* >= 2000 decodeTokens appends the single character with code
\* (id - 2000) mod 65536 (which is id - 2000 up to id 67535), in input order
\* and with no separator; decodeTokens([2072, 2101]).text is "He".
C7_AsciiBySubtractionMod ==
    /\ \A j \in 1..Len(reverseVocabulary) : reverseVocabulary[j].key < 2000
    /\ DecodeReturned =>
        /\ Len(lastCall.result.steps) = Len(lastCall.tokens)
        /\ \A i \in 1..Len(lastCall.tokens) :
               lastCall.tokens[i] >= 2000
                   => lastCall.result.steps[i].output
                          = <<(lastCall.tokens[i] - 2000) % 65536>>
        /\ lastCall.result.text =
               concat([i \in 1..Len(lastCall.result.steps) |->
                          lastCall.result.steps[i].output])
        /\ lastCall.tokens = <<2072, 2101>> => lastCall.result.text = <<72, 101>>

\* decodeTokens([2072, 2101]) returned "He"
C7_Witness ==
    /\ DecodeReturned
    /\ lastCall.tokens = <<2072, 2101>>
    /\ lastCall.result.text = <<72, 101>>

\* One id per character (UTF-16 code unit) of the unit, character code + 2000
idPerChar(u) == [k \in 1..Len(u) |-> u[k] + 2000]

\* One id per code point of the unit (a surrogate pair is one code point), the
\* code of its first character + 2000
idPerCodePoint(u) == [k \in 1..Len(ArrayFrom(u)) |-> ArrayFrom(u)[k][1] + 2000]

\* The ids the encoding rule gives for a text: unit by unit, the vocabulary id
\* of the lowercased unit when it has one, else one id per character of the
\* unit (per code point when byCodePoint)
idsByRule(text, byCodePoint) ==
    LET units == tokenizeWords(text)
        ids(u) == IF MapHas(vocabulary, toLowerCase(u))
                  THEN <<MapGet(vocabulary, toLowerCase(u))>>
                  ELSE IF byCodePoint THEN idPerCodePoint(u) ELSE idPerChar(u)
    IN  concat([k \in 1..Len(units) |-> ids(units[k])])

\* A text of plain spaces only
OnlySpaces(text) == \A k \in 1..Len(text) : text[k] = 32

FullListingReturned ==
    /\ lastCall.op = "getVocabulary"
    /\ lastCall.searchTerm = <<>>
    /\ lastCall.includeAscii

\* C9: getVocabulary('', true) returns exactly vocabulary.size + 95 entries,
\* in ascending order of id with no id twice, the 95 entries of type 'ascii'
\* being the characters with codes 32..126 under the ids code + 2000.
C9_FullListing ==
    FullListingReturned =>
        LET vocab == lastCall.result
            ascii == SelectSeq(vocab, LAMBDA e : e.type = "ascii")
        IN  /\ Len(vocab) = Len(vocabulary) + 95
            /\ \A k \in 1..(Len(vocab) - 1) : vocab[k].token < vocab[k + 1].token
            /\ Len(ascii) = 95
            /\ \A k \in 1..Len(ascii) :
                   /\ ascii[k].character = <<31 + k>>
                   /\ ascii[k].token = 31 + k + 2000

\* getVocabulary('', true) returned 159 + 95 = 254 entries, the first with id
\* 0 and the last with id 2126
C9_Witness ==
    /\ FullListingReturned
    /\ Len(vocabulary) = 159
    /\ Len(lastCall.result) = 254
    /\ lastCall.result[1].token = 0
    /\ lastCall.result[254].token = 2126

\* C10: Id ranges of the README.  Every special token has an id in 0..99,
\* every common word an id in 100..999, every punctuation entry an id in
\* 1000..1099, and the ASCII fallback ids start at 2000.
C10_IdRanges ==
    /\ \A k \in 1..Len(specialTokens) :
           MapGet(vocabulary, specialTokens[k]) \in 0..99
    /\ \A k \in 1..Len(commonWords) :
           MapGet(vocabulary, toLowerCase(commonWords[k])) \in 100..999
    /\ \A k \in 1..Len(punctuation) :
           MapGet(vocabulary, punctuation[k]) \in 1000..1099
    /\ asciiOffset = 2000


\* C11: README decoding example.  When decodeTokens has returned for the
\* token list 72, 101, 108, 108, 111 the returned text is "Hello".
C11_ReadmeDecodingExample ==
    (DecodeReturned /\ lastCall.tokens = <<72, 101, 108, 108, 111>>)
        => lastCall.result.text = <<72, 101, 108, 108, 111>>


\* The buttons whose click listener ran during the last event
Clicked == {lastEvent.clicked[i] : i \in 1..Len(lastEvent.clicked)}

\* The entry, trimmed, is an integer: an optional sign and decimal digits
IsIntegerEntry(entry) ==
    LET digits == IF entry # <<>> /\ entry[1] \in {43, 45} THEN Tail(entry) ELSE entry
    IN  /\ digits # <<>>
        /\ \A i \in 1..Len(digits) : digits[i] \in 48..57

\* The comma-separated text has an entry that is not an integer
HasNonIntegerEntry(value) ==
    LET entries == split(value, 44)
    IN  \E i \in 1..Len(entries) : ~IsIntegerEntry(trim(entries[i]))

\* C12: Invalid token input is rejected before decode.  Whenever
\* handleTokenDecoding has run on a token field whose comma-separated text
\* has an entry that is not an integer, a warning or error toast shows and
\* no decode callback is set for that text; and no decode callback, pending
\* or run (the call of tokenizer.decodeTokens), comes from such a text.
C12_InvalidTokenInputRejected ==
    /\ ("decode-btn" \in Clicked /\ HasNonIntegerEntry(ui.inputTokens)) =>
           /\ ui.toast.show
           /\ ui.toast.type \in {"warning", "error"}
           /\ \A i \in 1..Len(timers) :
                  timers[i].callback = "decode" =>
                      timers[i].tokenInput # trim(ui.inputTokens)
    /\ \A i \in 1..Len(timers) :
           timers[i].callback = "decode" => ~HasNonIntegerEntry(timers[i].tokenInput)
    /\ (lastEvent.type = "timeout" /\ lastEvent.callback = "decode") =>
           ~HasNonIntegerEntry(lastEvent.tokenInput)

\* C13: Trace lifecycle.  After every encodeText call, the call with the
\* empty text included and whatever call came before, this.encodingSteps is
\* exactly the trace of that call (the steps it returned); after every
\* decodeTokens call, the call with the empty list included,
\* this.decodingSteps is exactly the trace of that call.
C13_TraceLifecycle ==
    /\ EncodeReturned => encodingSteps = lastCall.result.steps
    /\ DecodeReturned => decodingSteps = lastCall.result.steps

\* C14: Vocabulary immutable after construction.  After any sequence of
\* encodeText, decodeTokens, getEncodingStats and getVocabulary calls the
\* forward map, the inverse map and the ASCII offset have the values the
\* constructor gave them.
C14_VocabularyImmutable ==
    /\ vocabulary = initializeVocabulary.vocabulary
    /\ reverseVocabulary = initializeVocabulary.reverseVocabulary
    /\ asciiOffset = initializeVocabulary.asciiOffset

\* After an encodeText call that spelled a word out, a decodeTokens call and
\* a getVocabulary call, the maps and the offset are those of the constructor
C14_Witness ==
    /\ lastCall.op = "getVocabulary"
    /\ \E i \in 1..Len(encodingSteps) : ~encodingSteps[i].process.found
    /\ decodingSteps # <<>>
    /\ vocabulary = initializeVocabulary.vocabulary
    /\ reverseVocabulary = initializeVocabulary.reverseVocabulary
    /\ asciiOffset = 2000

\* The seed entries in the order initializeVocabulary adds them, as the
\* units they are added as (the common words lowercased)
seedUnits ==
    specialTokens
        \o [k \in 1..Len(commonWords) |-> toLowerCase(commonWords[k])]
        \o punctuation

\* The last id initializeVocabulary assigns to the unit u
lastIdOf(u) ==
    (CHOOSE k \in 1..Len(seedUnits) :
        /\ seedUnits[k] = u
        /\ \A j \in (k + 1)..Len(seedUnits) : seedUnits[j] # u) - 1

\* C16: Forward/inverse consistency.  For every unit u of the forward map
\* inverse(forward(u)) = u; the inverse map has one entry for every id
\* assigned at initialization; and for an id i of the inverse map
\* forward(inverse(i)) = i exactly when i is the last id assigned to the unit
\* inverse(i) in the seed lists.
C16_ForwardInverseConsistency ==
    /\ \A i \in 1..Len(vocabulary) :
           /\ MapHas(reverseVocabulary, vocabulary[i].value)
           /\ MapGet(reverseVocabulary, vocabulary[i].value) = vocabulary[i].key
    /\ Len(reverseVocabulary) = Len(seedUnits)
    /\ MapKeys(reverseVocabulary) = {k - 1 : k \in 1..Len(seedUnits)}
    /\ \A j \in 1..Len(reverseVocabulary) :
           LET id   == reverseVocabulary[j].key
               unit == reverseVocabulary[j].value
           IN  /\ MapHas(vocabulary, unit)
               /\ (MapGet(vocabulary, unit) = id) <=> (id = lastIdOf(unit))

\* 'which' is in the seed list more than once: two ids of the inverse map
\* give 'which', and the forward map gives the later one
C16_Witness ==
    \E j, k \in 1..Len(reverseVocabulary) :
        /\ reverseVocabulary[j].value = <<119, 104, 105, 99, 104>>
        /\ reverseVocabulary[k].value = <<119, 104, 105, 99, 104>>
        /\ reverseVocabulary[j].key < reverseVocabulary[k].key
        /\ MapGet(vocabulary, <<119, 104, 105, 99, 104>>) = reverseVocabulary[k].key
        /\ MapGet(reverseVocabulary, MapGet(vocabulary, <<119, 104, 105, 99, 104>>))
               = <<119, 104, 105, 99, 104>>

NoSpaceNoLongWord(text) ==
    /\ \A i \in 1..Len(text) : text[i] # 32
    /\ LET units == tokenizeWords(text)
       IN  \A k \in 1..Len(units) :
               Len(units[k]) > 1 => ~MapHas(vocabulary, toLowerCase(units[k]))

\* The text has a high surrogate followed by a low surrogate
HasSurrogatePair(text) ==
    \E i \in 1..(Len(text) - 1) :
        IsHighSurrogate(text[i]) /\ IsLowSurrogate(text[i + 1])

\* C18 as stated: expansion bound without vocabulary hits.  For the text
\* "xyz123!@#", and for every text with no plain space and no vocabulary
\* word longer than one character, getEncodingStats gives tokenCount >=
\* characterCount and a compression ratio <= 0.
C18_NoCompression ==
    (/\ StatsReturned
     /\ \/ lastCall.text = <<120, 121, 122, 49, 50, 51, 33, 64, 35>>
        \/ NoSpaceNoLongWord(lastCall.text))
    => /\ lastCall.result.tokenCount >= lastCall.result.characterCount
       /\ ratioTenths(lastCall.result) <= 0

\* C18 (amended): for the text "xyz123!@#", and for every text with no plain
\* space, no vocabulary word longer than one character and no surrogate
\* pair, getEncodingStats gives tokenCount >= characterCount and a
\* compression ratio <= 0.
C18_NoCompressionNoPairs ==
    (/\ StatsReturned
     /\ \/ lastCall.text = <<120, 121, 122, 49, 50, 51, 33, 64, 35>>
        \/ /\ NoSpaceNoLongWord(lastCall.text)
           /\ ~HasSurrogatePair(lastCall.text))
    => /\ lastCall.result.tokenCount >= lastCall.result.characterCount
       /\ ratioTenths(lastCall.result) <= 0

\* getEncodingStats of a tab, a no-break space and a full stop: no plain
\* space, no word, no surrogate pair; three tokens for three characters
C18_Witness ==
    /\ StatsReturned
    /\ lastCall.text = <<9, 160, 46>>
    /\ NoSpaceNoLongWord(lastCall.text)
    /\ ~HasSurrogatePair(lastCall.text)
    /\ lastCall.result.tokenCount = 3
    /\ lastCall.result.characterCount = 3
    /\ ratioTenths(lastCall.result) = 0

\* C19: Keyboard shortcuts.  After a keydown of Enter with Ctrl or Cmd: without
\* Shift the encode button was clicked exactly if it was enabled, and the
\* decode button was not clicked; with Shift the decode button was clicked
\* exactly if it was enabled, and the encode button was not clicked.
C19_KeyboardShortcuts ==
    (/\ lastEvent.type = "keydown"
     /\ lastEvent.event.key = "Enter"
     /\ lastEvent.event.ctrlKey \/ lastEvent.event.metaKey)
    => IF lastEvent.event.shiftKey
       THEN /\ "decode-btn" \in Clicked <=> lastEvent.enabled.decode
            /\ "encode-btn" \notin Clicked
       ELSE /\ "encode-btn" \in Clicked <=> lastEvent.enabled.encode
            /\ "decode-btn" \notin Clicked

\* A whitespace or punctuation character: what ends a run in tokenizeWords
IsDelimiter(c) == c \in WhiteSpaceChars \cup PunctuationChars

\* The positions of the text a unit starts at: a delimiter other than the
\* plain space, or a character that is no delimiter and follows none
unitStarts(text) ==
    {i \in 1..Len(text) :
        /\ text[i] # 32
        /\ \/ IsDelimiter(text[i])
           \/ i = 1
           \/ IsDelimiter(text[i - 1])}

\* The position the unit starting at i ends at: i for a delimiter, else the
\* last position of the maximal run without delimiter
unitEnd(text, i) ==
    IF IsDelimiter(text[i]) THEN i
    ELSE CHOOSE j \in i..Len(text) :
             /\ \A k \in i..j : ~IsDelimiter(text[k])
             /\ j = Len(text) \/ IsDelimiter(text[j + 1])

\* C20: Unit splitting.  tokenizeWords returns, in input order, only
\* non-empty units, each a single punctuation character, a single whitespace
\* character other than the plain space, or a maximal run of characters that
\* are neither whitespace nor punctuation; no unit is a plain space; and the
\* concatenation of the units is the text with every plain space removed.
\* (The units of a text are the inputs of the steps encodeText returns.)
C20_UnitSplitting ==
    EncodeReturned =>
        LET text   == lastCall.text
            units  == tokenizeWords(text)
            starts == unitStarts(text)
            nth(k) == CHOOSE i \in starts :
                          Cardinality({j \in starts : j < i}) = k - 1
        IN  /\ text # <<>> =>
                   units = [k \in 1..Len(lastCall.result.steps) |->
                                lastCall.result.steps[k].input]
            /\ Len(units) = Cardinality(starts)
            /\ \A k \in 1..Len(units) :
                   /\ units[k] = SubSeq(text, nth(k), unitEnd(text, nth(k)))
                   /\ units[k] # <<>>
                   /\ units[k] # <<32>>
                   /\ \/ Len(units[k]) = 1 /\ units[k][1] \in PunctuationChars
                      \/ Len(units[k]) = 1 /\ units[k][1] \in WhiteSpaceChars \ {32}
                      \/ \A c \in 1..Len(units[k]) : ~IsDelimiter(units[k][c])
            /\ concat(units) = SelectSeq(text, LAMBDA c : c # 32)

\* encodeText("a .") split the text into the run "a" and the full stop: the
\* plain space between them is in no unit
C20_Witness ==
    /\ EncodeReturned
    /\ lastCall.text = <<97, 32, 46>>
    /\ tokenizeWords(lastCall.text) = << <<97>>, <<46>> >>
    /\ Len(lastCall.result.steps) = 2
    /\ lastCall.result.steps[2].input = <<46>>


\* C15: Calls do not interfere.  In every sequence of encodeText,
\* decodeTokens and getEncodingStats calls on the shared instance, the value a
\* call returned is the value the same call returns on the freshly
\* constructed instance, and a result a caller holds reads, trace included,
\* as it was returned, whatever calls came after it.
C15_CallsDoNotInterfere ==
    /\ lastCall.op \in {"encodeText", "getEncodingStats"} =>
           lastCall.result = freshResults[<<lastCall.op, lastCall.text>>]
    /\ lastCall.op = "decodeTokens" =>
           lastCall.result = freshResults[<<"decodeTokens", lastCall.tokens>>]
    /\ held.call.op # "none" => held.call.result = held.original

\* The result of an encodeText call with a trace is held, a later encodeText
\* call of another non-empty text has returned what it returns on the fresh
\* instance, and the held result reads as it was returned
C15_Witness ==
    /\ held.call.op = "encodeText"
    /\ held.call.result.steps # <<>>
    /\ lastCall.op = "encodeText"
    /\ lastCall.text # <<>>
    /\ lastCall.text # held.call.text
    /\ encodingSteps # held.call.result.steps
    /\ ~held.sharesEncodingSteps
    /\ held.call.result = held.original
    /\ lastCall.result = freshResults[<<"encodeText", lastCall.text>>]

\* The ids a step of an encoding trace put out, as a sequence: the one id of
\* a vocabulary unit, the ids of a unit encoded character by character
stepTokens(step) == IF step.process.found THEN <<step.output>> ELSE step.output

\* C21: Trace shape.  For a non-empty input the trace encodeText returned has
\* one entry per unit and the trace decodeTokens returned one entry per token,
\* numbered 1, 2, ..., n in processing order, with input the unit or token;
\* the outputs of the encode trace, concatenated in order, are the returned
\* tokens, and the outputs of the decode trace the returned text.
C21_TraceShape ==
    /\ (EncodeReturned /\ lastCall.text # <<>>) =>
           LET steps == lastCall.result.steps
               units == tokenizeWords(lastCall.text)
           IN  /\ Len(steps) = Len(units)
               /\ \A k \in 1..Len(steps) :
                      /\ steps[k].step = k
                      /\ steps[k].input = units[k]
               /\ concat([k \in 1..Len(steps) |-> stepTokens(steps[k])])
                      = lastCall.result.tokens
    /\ (DecodeReturned /\ lastCall.tokens # <<>>) =>
           LET steps == lastCall.result.steps
           IN  /\ Len(steps) = Len(lastCall.tokens)
               /\ \A k \in 1..Len(steps) :
                      /\ steps[k].step = k
                      /\ steps[k].input = lastCall.tokens[k]
               /\ concat([k \in 1..Len(steps) |-> steps[k].output])
                      = lastCall.result.text

\* encodeText("Hello world") returned a trace of two entries, numbered 1 and
\* 2, for the units "Hello" and "world", each with five ids
C21_Witness ==
    /\ EncodeReturned
    /\ lastCall.text = <<72,101,108,108,111,32,119,111,114,108,100>>
    /\ Len(lastCall.result.steps) = 2
    /\ lastCall.result.steps[1].step = 1
    /\ lastCall.result.steps[2].step = 2
    /\ lastCall.result.steps[2].input = <<119,111,114,108,100>>
    /\ lastCall.result.steps[2].output = <<2119,2111,2114,2108,2100>>
    /\ Len(lastCall.result.tokens) = 10

\* C22: Encoding never expands the input.  The tokens encodeText returns are
\* at most as many as the characters of the text, and the compression ratio
\* getEncodingStats computes is never below 0.
C22_NeverExpands ==
    /\ EncodeReturned => Len(lastCall.result.tokens) <= Len(lastCall.text)
    /\ StatsReturned =>
           /\ Len(lastCall.result.tokens) <= Len(lastCall.text)
           /\ lastCall.result.tokenCount <= lastCall.result.characterCount
           /\ ratioTenths(lastCall.result) >= 0

\* getEncodingStats("the cat"): seven characters, four tokens (one for the
\* word "the", none for the space, three for "cat"), ratio "42.9"
C22_Witness ==
    /\ StatsReturned
    /\ lastCall.text = <<116,104,101,32,99,97,116>>
    /\ lastCall.result.characterCount = 7
    /\ lastCall.result.tokens = <<10, 2099, 2097, 2116>>
    /\ lastCall.result.compressionRatio = <<52, 50, 46, 57>>

\* The ids of the forward map whose unit tokenizeWords can produce: the unit
\* is split into itself
producibleIds ==
    {vocabulary[i].value : i \in {j \in 1..Len(vocabulary) :
        tokenizeWords(vocabulary[j].key) = <<vocabulary[j].key>>}}

\* The ids initializeVocabulary gave to the special markers and to the
\* literal space entry, and the ids of a repeated seed word but its last
markerIds ==
    {j - 1 : j \in {k \in 1..Len(seedUnits) :
        \E m \in 1..Len(specialTokens) : seedUnits[k] = specialTokens[m]}}
spaceIds == {j - 1 : j \in {k \in 1..Len(seedUnits) : seedUnits[k] = <<32>>}}
orphanedIds ==
    {j - 1 : j \in {k \in 1..Len(seedUnits) :
        \E m \in (k + 1)..Len(seedUnits) : seedUnits[m] = seedUnits[k]}}

\* C24: Ids reachable by encoding.  Every id encodeText returns is >= 2000
\* or the forward-map id of a unit tokenizeWords can produce; none is the id
\* of a special marker, the id of the literal space entry, or an earlier id
\* of a word the seed list has more than once.
C24_ReachableIds ==
    EncodeReturned =>
        \A k \in 1..Len(lastCall.result.tokens) :
            LET id == lastCall.result.tokens[k]
            IN  /\ id >= 2000 \/ id \in producibleIds
                /\ id \notin markerIds
                /\ id \notin spaceIds
                /\ id \notin orphanedIds

\* encodeText("If so") returned the last ids of 'if' and 'so', words the seed
\* list has more than once: 'if' has the earlier id 53, ' ' the id 207
C24_Witness ==
    /\ EncodeReturned
    /\ lastCall.text = <<73,102,32,115,111>>
    /\ lastCall.result.tokens = <<lastIdOf(<<105,102>>), lastIdOf(<<115,111>>)>>
    /\ 53 \in orphanedIds
    /\ MapGet(reverseVocabulary, 53) = <<105,102>>
    /\ lastIdOf(<<105,102>>) > 53
    /\ spaceIds = {207}
    /\ markerIds = 0..9

\* The decode of the tokens of the held encodeText result has returned
RoundTripReturned ==
    /\ DecodeReturned
    /\ held.call.op = "encodeText"
    /\ lastCall.tokens = held.call.result.tokens

\* What a unit comes back as: its lowercased form when that is a vocabulary
\* word, else the unit itself
comesBackAs(u) == IF MapHas(vocabulary, toLowerCase(u)) THEN toLowerCase(u) ELSE u

\* C23: Encode followed by decode is lossy in exactly two ways.  For a text
\* of 16-bit characters (no surrogate pair, which stands for a character
\* beyond 16 bits), decodeTokens(encodeText(text).tokens).text is the text
\* with every plain space removed and every unit whose lowercased form is a
\* vocabulary word replaced by that lowercased form; when no unit is changed
\* by that replacement the text comes back without its plain spaces, every
\* other character, tabs and newlines included, unchanged and in order.
C23_RoundTripLoss ==
    (RoundTripReturned /\ ~HasSurrogatePair(held.call.text)) =>
        LET text  == held.call.text
            units == tokenizeWords(text)
        IN  /\ lastCall.result.text
                   = concat([k \in 1..Len(units) |-> comesBackAs(units[k])])
            /\ (\A k \in 1..Len(units) : comesBackAs(units[k]) = units[k])
                   => lastCall.result.text = SelectSeq(text, LAMBDA c : c # 32)
            /\ Len(lastCall.result.text)
                   = Len(text) - Len(SelectSeq(text, LAMBDA c : c = 32))

\* "A", a plain space and a tab came back as "a" and the tab: the space is
\* gone, the word is lowercased, the tab is kept
C23_Witness ==
    /\ RoundTripReturned
    /\ held.call.text = <<65, 32, 9>>
    /\ held.call.result.tokens = <<MapGet(vocabulary, <<97>>), MapGet(vocabulary, <<9>>)>>
    /\ lastCall.result.text = <<97, 9>>

\* The encoding sequence and encoding result panels are empty
EncodePanelsEmpty ==
    /\ ui.encodingSequence.shows = "nothing"
    /\ ui.encodingResult.shows = "nothing"

\* The callbacks of handleTextEncoding that have not run yet
PendingEncodes == {i \in 1..Len(timers) : timers[i].callback = "encode"}

\* C25: Clear is not undone by a pending encode.  Once handleClearAll has
\* run, the encoding sequence and encoding result panels stay empty until the
\* user clicks Encode again; the Encode button is disabled exactly while an
\* encode timer is pending; at most one is pending; and a disabled Encode
\* button is eventually enabled again.
C25_ClearNotUndone ==
    /\ [](encodingCleared => EncodePanelsEmpty)
    /\ [](ui.encodeBtn.disabled <=> PendingEncodes # {})
    /\ [](Cardinality(PendingEncodes) <= 1)
    /\ (ui.encodeBtn.disabled ~> ~ui.encodeBtn.disabled)

====
